---- MODULE Spec2Model ----
(***************************************************************************)
(* The calendar Event Store (CalendarService) and the Command Dispatcher   *)
(* (ActionParser.execute).                                                 *)
(*                                                                         *)
(* The repository holds two CalendarService sources: the transaction-API   *)
(* one (src/services/CalendarService.ts) and an async-API one              *)
(* (src/unnamed/part_005).  A run of the model is one store; `variant`     *)
(* says which source it was built from.                                    *)
(*                                                                         *)
(* Strings the code inspects character by character (titles, title         *)
(* queries) are sequences of one-character strings.  Timestamps are        *)
(* integers (epoch milliseconds), ids are the decimal strings Date.now()   *)
(* yields.                                                                 *)
(***************************************************************************)
EXTENDS Integers, Sequences, FiniteSets, TLC

(* ------------------------------ bounds -------------------------------- *)

\* Date.now() takes the values 1..MaxClock.
MaxClock == 2
\* A run makes at most MaxCalls calls of the store and the dispatcher.
MaxCalls == 3

\* The callbacks that get registered.
Listeners == {"l1", "l2"}
\* Title queries: "a" is in "Ab" only, "B" is in both titles, "x" in none.
Queries == {<<"a">>, <<"B">>, <<"x">>}
\* The arguments of the createEvent calls: title, startTime, endTime,
\* description.
CreateArgs ==
    {<<<<"A", "b">>, "2025-01-01T12:00:00", "2025-01-01T13:00:00", "note">>,
     <<<<"b">>, "2025-01-01T12:00:00", "2025-01-01T13:00:00", "#undefined">>,
     <<<<"b">>, "soon", "2025-01-01T13:00:00", "#undefined">>}
\* The title and description of the updateEvent calls; the first is a call
\* with a title only.
UpdateEventArgs == {<<<<"b">>, "#undefined">>, <<<<"A", "b">>, "memo">>}
\* Ids the callers ask for besides those in the snapshot.
UnknownId == "404"

(* --------------------------- JavaScript values ------------------------ *)

\* `undefined` for an optional string (Event.description).
Undefined == "#undefined"
\* SQL NULL in a TEXT column.
SqlNull == "#NULL"
\* A title that is not a string (JSON null merged by Object.assign).
NotAString == <<"#null">>
\* new Date(x).getTime() of an unparseable text: NaN.
NaN == 0 - 1

\* String.prototype.toLowerCase on one character.
LowerChar(c) == IF c = "A" THEN "a" ELSE IF c = "B" THEN "b" ELSE c
\* String.prototype.toLowerCase.
toLowerCase(s) == [i \in 1..Len(s) |-> LowerChar(s[i])]
\* String.prototype.includes.
includes(s, q) ==
    \E i \in 0..(Len(s) - Len(q)) : \A j \in 1..Len(q) : s[i + j] = q[j]
\* new Date(text).getTime(): the milliseconds, NaN for an unparseable text.
DateParse(text) ==
    CASE text = "2025-01-01T12:00:00" -> 12
      [] text = "2025-01-01T13:00:00" -> 13
      [] text = "2025-01-02T09:00:00" -> 33
      [] OTHER -> NaN

(* ------------------------------- state -------------------------------- *)

VARIABLES
    variant,      \* "tx": src/services/CalendarService.ts, "async": part_005
    now,          \* the last value Date.now() returned
    events,       \* this.events
    subscribers,  \* this.subscribers
    dbOpen,       \* this.db is set
    tableExists,  \* the events table exists in calendar.db
    rows,         \* the rows of the events table, in insertion order
    pending,      \* database requests issued and not yet executed, in order
    writeFailed,  \* some INSERT / UPDATE / DELETE request has failed
    created,      \* per createEvent call so far: the id it assigned and
                  \* whether it returned the event
    ready,        \* a loadEvents has completed
    raced,        \* a mutation was made with no load completed yet, or
                  \* while an init() was in progress
    last,         \* what the last call did and returned
    calls,        \* number of calls made so far
    storageUnavailable,  \* the last init() failed to open the database or
                         \* to create the table
    writeRaised,  \* the failure of a write has rejected the promise of the
                  \* mutation that issued it
    aiResponseText, \* the text handed to ActionParser.parse
    action,       \* what ActionParser.parse has matched and returns
    lastIndex,    \* paramRegex.lastIndex, where the next exec starts
    held,         \* the array a read returned last, as its caller holds it
    ai            \* the AIService: its context, its initPromise, the
                  \* initializeContext in progress and the calls made

vars == <<variant, now, events, subscribers, dbOpen, tableExists, rows,
          pending, writeFailed, created, ready, raced, last, calls,
          storageUnavailable, writeRaised, aiResponseText, action,
          lastIndex, held, ai>>

\* An Event (part_000).  `key` is not a field of the program's Event: it
\* names the createEvent call the event comes from (0: an earlier session),
\* so that an event can be followed when its id is not unique.
NoEvent == [key |-> 0, id |-> "", title |-> <<>>, startTime |-> 0,
            endTime |-> 0, description |-> Undefined]

\* The fields of the program's Event.
Pub(e) == [id |-> e.id, title |-> e.title, startTime |-> e.startTime,
           endTime |-> e.endTime, description |-> e.description]

\* The row a previous session may have left in calendar.db.
OldRow == [key |-> 0, id |-> "0", title |-> <<"b">>, startTime |-> 12,
           endTime |-> 13, description |-> SqlNull]

\* Remove the elements of a sequence that fail a test (Array.prototype.filter).
RECURSIVE FilterOut(_, _)
FilterOut(s, id) ==
    IF s = <<>> THEN <<>>
    ELSE IF Head(s).id = id THEN FilterOut(Tail(s), id)
    ELSE <<Head(s)>> \o FilterOut(Tail(s), id)

\* A removal that would take out the first registration only: C36 does not
\* hold of it.
RECURSIVE FilterSubsFirst(_, _)
FilterSubsFirst(s, cb) ==
    IF s = <<>> THEN <<>>
    ELSE IF Head(s) = cb THEN Tail(s)
    ELSE <<Head(s)>> \o FilterSubsFirst(Tail(s), cb)

\* this.subscribers.filter(sub => sub !== callback)
RECURSIVE FilterSubs(_, _)
FilterSubs(s, cb) ==
    IF s = <<>> THEN <<>>
    ELSE IF Head(s) = cb THEN FilterSubs(Tail(s), cb)
    ELSE <<Head(s)>> \o FilterSubs(Tail(s), cb)

\* Array.prototype.splice(i, 1).
Splice(s, i) == SubSeq(s, 1, i - 1) \o SubSeq(s, i + 1, Len(s))

\* Array.prototype.findIndex over ids: 0 when there is none (-1 in the code).
findIndexById(evs, id) ==
    IF \E i \in 1..Len(evs) : evs[i].id = id
    THEN CHOOSE i \in 1..Len(evs) :
            evs[i].id = id /\ \A j \in 1..(i - 1) : evs[j].id # id
    ELSE 0

(* ------------------------------ queries ------------------------------- *)

getAllEvents == events

\* getEventById: the first event with that id, NoEvent for undefined.
getEventByIdIn(evs, id) ==
    IF findIndexById(evs, id) = 0 THEN NoEvent ELSE evs[findIndexById(evs, id)]

getEventById(id) == getEventByIdIn(events, id)

\* Whether title is a string, so that title.toLowerCase() does not throw.
IsString(t) == t # NotAString

\* event.title.toLowerCase().includes(titleQuery.toLowerCase())
titleMatches(e, q) ==
    IsString(e.title) /\ includes(toLowerCase(e.title), toLowerCase(q))

\* Array.prototype.find with the title test: the index of the first match,
\* 0 when there is none.
findIndexByTitle(evs, q) ==
    IF \E i \in 1..Len(evs) : titleMatches(evs[i], q)
    THEN CHOOSE i \in 1..Len(evs) :
            titleMatches(evs[i], q) /\ \A j \in 1..(i - 1) : ~titleMatches(evs[j], q)
    ELSE 0

\* Array.prototype.find stops at the first match: it throws (TypeError,
\* toLowerCase of a non-string) when a non-string title comes before it.
findThrows(evs, q) ==
    \E i \in 1..Len(evs) :
        /\ ~IsString(evs[i].title)
        /\ \A j \in 1..(i - 1) : ~titleMatches(evs[j], q)

\* Array.prototype.filter visits every event: it throws when any title is
\* not a string.
filterThrows(evs) == \E i \in 1..Len(evs) : ~IsString(evs[i].title)

RECURSIVE FilterByTitle(_, _)
FilterByTitle(evs, q) ==
    IF evs = <<>> THEN <<>>
    ELSE IF titleMatches(Head(evs), q)
         THEN <<Head(evs)>> \o FilterByTitle(Tail(evs), q)
         ELSE FilterByTitle(Tail(evs), q)

\* findEventsByTitle, when it does not throw.
findEventsByTitle(q) == FilterByTitle(events, q)

(* --------------------------- notification ----------------------------- *)

\* notify(): forEach calls the callbacks in order.  A callback may throw, and
\* forEach then stops and the exception leaves notify.  A callback may also
\* call the store while it is notified: here it calls unsubscribe on itself,
\* which replaces this.subscribers while forEach goes on over the old array.
\* The outcomes: the callbacks invoked (the throwing one included), whether
\* one threw, whether one called the store, and this.subscribers afterwards.
notify(subs) ==
    {[invoked |-> subs, threw |-> FALSE, reentered |-> FALSE, after |-> subs]}
    \cup {[invoked |-> SubSeq(subs, 1, k), threw |-> TRUE, reentered |-> FALSE,
           after |-> subs] : k \in 1..Len(subs)}
    \cup {[invoked |-> subs, threw |-> FALSE, reentered |-> TRUE,
           after |-> FilterSubs(subs, subs[k])] : k \in 1..Len(subs)}

(* ------------------------- database requests -------------------------- *)

\* `awaited`: the mutation awaits the request (await this.db.runAsync).
Request(op, row) == [op |-> op, row |-> row, awaited |-> FALSE]
NoRow == [key |-> 0, id |-> "", title |-> <<>>, startTime |-> 0,
          endTime |-> 0, description |-> SqlNull]

\* description ?? null
OrNull(d) == IF d = Undefined THEN SqlNull ELSE d
\* row.description ?? undefined
OrUndefined(d) == IF d = SqlNull THEN Undefined ELSE d

\* The parameters bound to an INSERT / UPDATE for an event.
RowOf(e) == [key |-> e.key, id |-> e.id, title |-> e.title,
             startTime |-> e.startTime, endTime |-> e.endTime,
             description |-> OrNull(e.description)]

\* this.db.transaction / this.db.runAsync: the request joins the queue.
Enqueue(q, op, row) == Append(q, Request(op, row))

\* How a call changed this.events: through the array it had ("push",
\* "assign" of properties to the element at `at`, "replace" of the element
\* at `at` by a new object, "splice" of the element at `at`), or by making
\* it refer to a new array ("filter" of the events with id `id`, "load").
How(kind, at, id) == [kind |-> kind, at |-> at, id |-> id]
Untouched == How("none", 0, "")

\* What a store call did: the new snapshot and queue, and what the caller
\* and the listeners saw.
Result(evs, out, applied, op, row, ev, ok) ==
    LET wrote == applied /\ ~out.threw /\ dbOpen
    IN [events |-> evs,
        pending |-> IF wrote THEN Enqueue(pending, op, row) ELSE pending,
        subscribers |-> out.after,
        applied |-> applied,
        notified |-> out.invoked,
        listenerThrew |-> out.threw,
        reentered |-> out.reentered,
        \* a throwing callback, or this.db undefined (async variant before
        \* init), ends the call with an exception
        raised |-> out.threw \/ (applied /\ ~dbOpen),
        queued |-> wrote,
        ev |-> ev,
        ok |-> ok,
        how |-> Untouched]

NoNotify == [invoked |-> <<>>, threw |-> FALSE, reentered |-> FALSE,
             after |-> subscribers]

\* A call that found nothing to do.
NotFound == Result(events, NoNotify, FALSE, "none", NoRow, NoEvent, FALSE)

\* A call that threw before it changed anything.
Threw == [NotFound EXCEPT !.raised = TRUE]

\* await this.db.runAsync(...): the promise of the call settles with the
\* request it issued.
Awaited(r) ==
    IF r.queued
    THEN [r EXCEPT !.pending = [r.pending EXCEPT ![Len(r.pending)].awaited = TRUE]]
    ELSE r

(* --------------------------- store operations ------------------------- *)

\* Object.assign(eventToUpdate, updates): the own properties of updates
\* overwrite those of the event or are added to it, whatever they are.
ObjectAssign(e, u) ==
    [f \in DOMAIN e \cup DOMAIN u |-> IF f \in DOMAIN u THEN u[f] ELSE e[f]]

\* createEvent.  `clock` is what Date.now() returns, `out` what notify() did.
createEvent(clock, title, startTime, endTime, description, out) ==
    LET id == ToString(clock)
        newEvent == [key |-> Len(created) + 1, id |-> id, title |-> title,
                     description |-> description,
                     startTime |-> DateParse(startTime),
                     endTime |-> DateParse(endTime)]
    IN [Result(Append(events, newEvent), out, TRUE, "insert", RowOf(newEvent),
               newEvent, TRUE)
        EXCEPT !.how = How("push", 0, "")]

\* updateEventByTitle.
updateEventByTitle(titleQuery, updates, out) ==
    IF findThrows(events, titleQuery) THEN Threw
    ELSE LET i == findIndexByTitle(events, titleQuery)
         IN IF i = 0 THEN NotFound
            ELSE LET eventToUpdate == ObjectAssign(events[i], updates)
                 IN [Result([events EXCEPT ![i] = eventToUpdate], out, TRUE,
                            "update", RowOf(eventToUpdate), eventToUpdate, TRUE)
                     EXCEPT !.how = How("assign", i, "")]

\* deleteEventByTitle.
deleteEventByTitle(titleQuery, out) ==
    IF filterThrows(events) THEN Threw
    ELSE LET found == findEventsByTitle(titleQuery)
         IN IF found = <<>> THEN NotFound
            ELSE LET eventToDelete == found[1]
                 IN [Result(FilterOut(events, eventToDelete.id), out, TRUE,
                            "delete", [NoRow EXCEPT !.id = eventToDelete.id],
                            eventToDelete, TRUE)
                     EXCEPT !.how = How("filter", 0, eventToDelete.id)]

\* updateEvent(id, title, description?).  The async variant's UPDATE sets
\* title and description only.
updateEvent(id, title, description, out) ==
    LET eventIndex == findIndexById(events, id)
    IN IF eventIndex = 0 THEN NotFound
       ELSE LET existing == events[eventIndex]
                updatedEvent == [existing EXCEPT !.title = title,
                                                 !.description = description]
                r == [Result([events EXCEPT ![eventIndex] = updatedEvent], out,
                             TRUE,
                             IF variant = "tx" THEN "update" ELSE "updateTitleDesc",
                             RowOf(updatedEvent), updatedEvent, TRUE)
                      EXCEPT !.how = How("replace", eventIndex, "")]
            IN IF variant = "tx" THEN r ELSE Awaited(r)

\* deleteEvent of src/services/CalendarService.ts: filters, notifies and
\* issues the DELETE whether or not an event had that id.
deleteEventTx(id, out) ==
    LET kept == FilterOut(events, id)
        removed == Len(kept) < Len(events)
    IN [Result(kept, out, TRUE, "delete", [NoRow EXCEPT !.id = id], NoEvent,
               removed)
        EXCEPT !.applied = removed, !.how = How("filter", 0, id)]

\* deleteEvent of part_005: removes the first event with that id.
deleteEventAsync(id, out) ==
    LET eventIndex == findIndexById(events, id)
    IN IF eventIndex = 0 THEN NotFound
       ELSE Awaited([Result(Splice(events, eventIndex), out, TRUE, "delete",
                            [NoRow EXCEPT !.id = id], NoEvent, TRUE)
                     EXCEPT !.how = How("splice", eventIndex, "")])

deleteEvent(id, out) ==
    IF variant = "tx" THEN deleteEventTx(id, out) ELSE deleteEventAsync(id, out)

\* A load that would keep the events of the snapshot and add the rows: C13
\* does not hold of it.
loadEventsMerging(rs) ==
    events \o [i \in 1..Len(rs) |->
        [key |-> rs[i].key, id |-> rs[i].id, title |-> rs[i].title,
         startTime |-> rs[i].startTime, endTime |-> rs[i].endTime,
         description |-> OrUndefined(rs[i].description)]]

\* loadEvents: one event per row.
loadEvents(rs) ==
    [i \in 1..Len(rs) |->
        [key |-> rs[i].key, id |-> rs[i].id, title |-> rs[i].title,
         startTime |-> rs[i].startTime, endTime |-> rs[i].endTime,
         description |-> OrUndefined(rs[i].description)]]

(* ------------------------------ the calls ----------------------------- *)

\* The params of a call that is no dispatch.
NoParams == [none |-> ""]

\* What is recorded of a call: its name and arguments, the callbacks
\* registered when it was made, its Result, and for a dispatch the params
\* and the events returned.
Call(op, id, title, description, r, msg) ==
    [op |-> op, id |-> id, title |-> title, description |-> description,
     registered |-> subscribers,
     applied |-> r.applied, notified |-> r.notified,
     listenerThrew |-> r.listenerThrew, reentered |-> r.reentered,
     raised |-> r.raised,
     queued |-> r.queued, ev |-> r.ev, ok |-> r.ok, msg |-> msg,
     params |-> NoParams, res |-> <<>>]

Idle(op) == Call(op, "", <<>>, Undefined, NotFound, <<>>)

\* An init() is in progress.
Loading ==
    \E i \in 1..Len(pending) : pending[i].op \in {"open", "schema", "select"}

\* An array a read returned, as its caller holds it: `then` what it held
\* when it was returned, `seen` what it holds now, `same` whether it is the
\* array this.events refers to, and for each element `refs` the position in
\* this.events of the same object, 0 when the object is not there.
NotHeld == [taken |-> FALSE, then |-> <<>>, seen |-> <<>>, same |-> FALSE,
            refs |-> <<>>]

\* return this.events: the array itself.
HoldSnapshot ==
    [taken |-> TRUE, then |-> events, seen |-> events, same |-> TRUE,
     refs |-> [i \in 1..Len(events) |-> i]]

\* Array.prototype.filter: the positions a test keeps, in order.
RECURSIVE Positions(_, _, _)
Positions(evs, q, i) ==
    IF i > Len(evs) THEN <<>>
    ELSE (IF titleMatches(evs[i], q) THEN <<i>> ELSE <<>>)
         \o Positions(evs, q, i + 1)

\* return this.events.filter(...): a new array of the same objects.
HoldMatches(q) ==
    [taken |-> TRUE, then |-> findEventsByTitle(q),
     seen |-> findEventsByTitle(q), same |-> FALSE,
     refs |-> Positions(events, q, 1)]

\* The number of events before position j that filter(event.id !== id) keeps.
KeptBefore(evs, id, j) == Cardinality({i \in 1..j : evs[i].id # id})

\* What the holder of a returned array sees after a change of this.events
\* from evs to new.
Alias(h, how, evs, new) ==
    IF ~h.taken \/ how.kind = "none" THEN h
    ELSE IF how.kind \in {"push", "splice"}
    THEN IF h.same
         THEN [h EXCEPT !.seen = new, !.refs = [i \in 1..Len(new) |-> i]]
         ELSE IF how.kind = "push" THEN h
         ELSE [h EXCEPT !.refs = [i \in 1..Len(h.refs) |->
                          IF h.refs[i] = how.at THEN 0
                          ELSE IF h.refs[i] > how.at THEN h.refs[i] - 1
                          ELSE h.refs[i]]]
    ELSE IF how.kind = "assign"
    THEN [h EXCEPT !.seen = [i \in 1..Len(h.seen) |->
                      IF h.refs[i] = how.at THEN new[how.at] ELSE h.seen[i]]]
    ELSE IF how.kind = "replace"
    THEN IF h.same THEN [h EXCEPT !.seen = new]
         ELSE [h EXCEPT !.refs = [i \in 1..Len(h.refs) |->
                          IF h.refs[i] = how.at THEN 0 ELSE h.refs[i]]]
    ELSE IF how.kind = "filter"
    THEN [h EXCEPT !.same = FALSE,
                   !.refs = [i \in 1..Len(h.refs) |->
                      IF h.refs[i] = 0 \/ evs[h.refs[i]].id = how.id THEN 0
                      ELSE KeptBefore(evs, how.id, h.refs[i])]]
    ELSE [h EXCEPT !.same = FALSE, !.refs = [i \in 1..Len(h.refs) |-> 0]]

\* The store takes the Result of a call.
Commit(r) ==
    /\ events' = r.events
    /\ held' = Alias(held, r.how, events, r.events)
    /\ pending' = r.pending
    /\ subscribers' = r.subscribers
    /\ raced' = (raced \/ (r.applied /\ (~ready \/ Loading)))

\* notify() is reached only by a call that found its target.
Outcomes(hit) == IF hit THEN notify(subscribers) ELSE {NoNotify}

\* Every call is counted.
Counted == calls < MaxCalls /\ calls' = calls + 1

\* Date.now(): the clock does not go back, and may not have moved since the
\* last reading.
DateNow == now..MaxClock

Subscribe ==
    \E cb \in Listeners :
        /\ Counted
        /\ subscribers' = Append(subscribers, cb)
        /\ last' = [Idle("subscribe") EXCEPT !.id = cb]
        /\ UNCHANGED <<variant, now, events, dbOpen, tableExists, rows,
                       pending, writeFailed, created, ready,
                       raced,
                        storageUnavailable, writeRaised, aiResponseText, action,
                   lastIndex, held, ai>>

Unsubscribe ==
    \E cb \in Listeners :
        /\ Counted
        /\ subscribers' = FilterSubs(subscribers, cb)
        /\ last' = [Idle("unsubscribe") EXCEPT !.id = cb]
        /\ UNCHANGED <<variant, now, events, dbOpen, tableExists, rows,
                       pending, writeFailed, created, ready,
                       raced,
                        storageUnavailable, writeRaised, aiResponseText, action,
                   lastIndex, held, ai>>

CreateEvent ==
    \E clock \in DateNow, a \in CreateArgs, out \in notify(subscribers) :
        LET r == createEvent(clock, a[1], a[2], a[3], a[4], out)
        IN /\ Counted
           /\ now' = clock
           /\ Commit(r)
           /\ created' = Append(created, [id |-> r.ev.id,
                                           returned |-> ~r.raised])
           /\ last' = Call("createEvent", r.ev.id, a[1], a[4], r, <<>>)
           /\ UNCHANGED <<variant, dbOpen, tableExists,
                          rows, writeFailed, ready,
                        storageUnavailable, writeRaised, aiResponseText, action,
                   lastIndex, ai>>

(* ----------------------------- store calls ---------------------------- *)

\* The ids a caller passes: those it has seen, and one that never existed.
IdArgs == {events[i].id : i \in 1..Len(events)} \cup {UnknownId}

\* The Partial<Event> values passed to updateEventByTitle.
UpdateArgs == {[title |-> <<"A", "b">>], [startTime |-> 33]}

UpdateEventByTitle ==
    \E titleQuery \in Queries, updates \in UpdateArgs :
      \E out \in Outcomes(~findThrows(events, titleQuery)
                          /\ findIndexByTitle(events, titleQuery) # 0) :
        LET r == updateEventByTitle(titleQuery, updates, out)
        IN /\ Counted
           /\ Commit(r)
           /\ last' = Call("updateEventByTitle", r.ev.id, titleQuery,
                           Undefined, r, <<>>)
           /\ UNCHANGED <<variant, now, dbOpen, tableExists,
                          rows, writeFailed, created, ready,
                        storageUnavailable, writeRaised, aiResponseText, action,
                   lastIndex, ai>>

DeleteEventByTitle ==
    \E titleQuery \in Queries :
      \E out \in Outcomes(~filterThrows(events)
                          /\ findEventsByTitle(titleQuery) # <<>>) :
        LET r == deleteEventByTitle(titleQuery, out)
        IN /\ Counted
           /\ Commit(r)
           /\ last' = Call("deleteEventByTitle", r.ev.id, titleQuery,
                           Undefined, r, <<>>)
           /\ UNCHANGED <<variant, now, dbOpen, tableExists,
                          rows, writeFailed, created, ready,
                        storageUnavailable, writeRaised, aiResponseText, action,
                   lastIndex, ai>>

UpdateEvent ==
    \E id \in IdArgs, a \in UpdateEventArgs :
      \E out \in Outcomes(findIndexById(events, id) # 0) :
        LET r == updateEvent(id, a[1], a[2], out)
        IN /\ Counted
           /\ Commit(r)
           /\ last' = Call("updateEvent", id, a[1], a[2], r, <<>>)
           /\ UNCHANGED <<variant, now, dbOpen, tableExists,
                          rows, writeFailed, created, ready,
                        storageUnavailable, writeRaised, aiResponseText, action,
                   lastIndex, ai>>

DeleteEvent ==
    \E id \in IdArgs :
      \E out \in Outcomes(variant = "tx" \/ findIndexById(events, id) # 0) :
        LET r == deleteEvent(id, out)
        IN /\ Counted
           /\ Commit(r)
           /\ last' = Call("deleteEvent", id, <<>>, Undefined, r, <<>>)
           /\ UNCHANGED <<variant, now, dbOpen, tableExists,
                          rows, writeFailed, created, ready,
                        storageUnavailable, writeRaised, aiResponseText, action,
                   lastIndex, ai>>

\* getAllEvents(): the caller gets this.events itself.
GetAllEvents ==
    /\ Counted
    /\ held' = HoldSnapshot
    /\ last' = [Idle("getAllEvents") EXCEPT !.res = getAllEvents]
    /\ UNCHANGED <<variant, now, events, subscribers, dbOpen, tableExists,
                   rows, pending, writeFailed, created, ready, raced,
                   storageUnavailable, writeRaised, aiResponseText, action,
                   lastIndex, ai>>

\* The queries passed to findEventsByTitle: the title queries and ''.
FindQueries == Queries \cup {<<>>}

\* findEventsByTitle(titleQuery), called on the store.
FindEventsByTitle ==
    \E titleQuery \in FindQueries :
        LET r == IF filterThrows(events) THEN Threw ELSE NotFound
        IN /\ Counted
           /\ last' = [Call("findEventsByTitle", "", titleQuery, Undefined, r,
                            <<>>)
                          EXCEPT !.res = IF r.raised THEN <<>>
                                         ELSE findEventsByTitle(titleQuery)]
           /\ UNCHANGED <<variant, now, events, subscribers, dbOpen,
                          tableExists, rows, pending, writeFailed, created,
                          ready, raced, storageUnavailable, writeRaised, aiResponseText, action,
                   lastIndex, held, ai>>

(* --------------------------- the dispatcher --------------------------- *)

\* A value without own enumerable properties (a number).
NoFields == [f \in {} |-> ""]

\* JSON.parse of the texts passed as `updates`: an object, an array (its
\* own properties are its indices), a number, JSON null, or a SyntaxError.
JSONparse(text) ==
    CASE text = "{\"title\":\"Ab\"}" ->
            [kind |-> "object", val |-> [title |-> <<"A", "b">>]]
      [] text = "{\"title\":null}" ->
            [kind |-> "object", val |-> [title |-> NotAString]]
      [] text = "{\"id\":\"x\"}" ->
            [kind |-> "object", val |-> [id |-> "x"]]
      [] text = "{\"startTime\":\"2025-01-02T09:00:00\"}" ->
            [kind |-> "object", val |-> [startTime |-> "2025-01-02T09:00:00"]]
      [] text = "{\"title\":\"\"}" ->
            [kind |-> "object", val |-> [title |-> <<>>]]
      [] text = "[1]" -> [kind |-> "array", val |-> [i \in {"0"} |-> "1"]]
      [] text = "5" -> [kind |-> "number", val |-> NoFields]
      [] text = "null" -> [kind |-> "null", val |-> NoFields]
      [] OTHER -> [kind |-> "SyntaxError", val |-> NoFields]

\* if (parsedUpdates.startTime) parsedUpdates.startTime = new Date(...), and
\* the same for endTime.
convertDates(u) ==
    [f \in DOMAIN u |->
        IF f \in {"startTime", "endTime"} /\ u[f] # ""
        THEN DateParse(u[f]) ELSE u[f]]

\* The params of the dispatched commands, by command.  A key that is absent
\* is not in the record.
CreateParams ==
    {[title |-> <<"b">>, startTime |-> "2025-01-01T12:00:00",
      endTime |-> "2025-01-01T13:00:00"],
     [title |-> <<"A", "b">>, startTime |-> "soon",
      endTime |-> "2025-01-01T13:00:00", description |-> "note"],
     [title |-> <<"b">>, startTime |-> "2025-01-01T12:00:00"],
     [title |-> <<>>, startTime |-> "2025-01-01T12:00:00",
      endTime |-> "2025-01-01T13:00:00"],
     [startTime |-> "2025-01-01T12:00:00", endTime |-> "2025-01-01T13:00:00"],
     [title |-> <<"b">>, startTime |-> "", endTime |-> "2025-01-01T13:00:00"],
     [title |-> <<"b">>, startTime |-> "2025-01-01T12:00:00", endTime |-> ""]}
ReadParams == {[title |-> <<"a">>], [title |-> <<>>], [limit |-> "5"]}
UpdatesTexts ==
    {"{\"title\":\"Ab\"}", "{\"title\":null}", "{\"id\":\"x\"}",
     "{\"startTime\":\"2025-01-02T09:00:00\"}", "null", "{title:",
     "{\"title\":\"\"}", "[1]", "5"}
UpdateParams ==
    {[title |-> <<"B">>, updates |-> u] : u \in UpdatesTexts}
    \cup {[title |-> <<"x">>, updates |-> "{\"title\":\"Ab\"}"],
          [title |-> <<"B">>], [title |-> <<"B">>, updates |-> ""],
          [updates |-> "{\"title\":\"Ab\"}"],
          [title |-> <<>>, updates |-> "{\"title\":\"Ab\"}"]}
DeleteParams == {[title |-> <<"a">>], [title |-> <<"x">>], [title |-> <<>>],
                 [id |-> "1"]}
UnknownCommands == {"FROBNICATE"}

\* Truthiness of a param that is a title (a sequence of characters) and of
\* one that is some other text.
\* A test that would take an empty param for a given one: C20 does not hold
\* of it.
TruthyWhenPresent(params, k) == k \in DOMAIN params
\* A test that would take an empty title for a given one: C25 does not hold
\* of it.
TruthyTitleWhenPresent(params) == "title" \in DOMAIN params
TruthyTitle(params) == "title" \in DOMAIN params /\ params.title # <<>>
Truthy(params, k) == k \in DOMAIN params /\ params[k] # ""

\* description || ''
OrEmpty(params) ==
    IF Truthy(params, "description") THEN params.description ELSE ""

\* The result strings.
MsgCreated == <<"Event created successfully.">>
MsgCreateFailed == <<"Create event failed: Missing required parameters.">>
MsgUpdateMissing == <<"Update failed: Missing title or update information.">>
MsgUpdated(title) == <<"Event '">> \o title \o <<"' updated successfully.">>
MsgNoSuchTitle(title) ==
    <<"Could not find an event with the title '">> \o title \o <<"'.">>
MsgUpdateError ==
    <<"There was an error updating the event. The update details were not formatted correctly.">>
MsgDeleteMissing == <<"Delete failed: Missing title information.">>
MsgDeleted(title) == <<"Event '">> \o title \o <<"' deleted successfully.">>
\* A message that would not name the command: C18 does not hold of it.
MsgUnknownUnnamed(command) == <<"Unknown command">>
MsgUnknown(command) == <<"Unknown command: ", command>>
\* The promise of execute() is rejected: there is no result.
Rejected == <<"#rejected">>

\* case 'CREATE_EVENT'
ExecCreate ==
    \E params \in CreateParams, clock \in DateNow :
      \E out \in Outcomes(TruthyTitle(params) /\ Truthy(params, "startTime")
                          /\ Truthy(params, "endTime")) :
        LET valid == TruthyTitle(params) /\ Truthy(params, "startTime")
                     /\ Truthy(params, "endTime")
            r == IF valid
                 THEN createEvent(clock, params.title, params.startTime,
                                  params.endTime, OrEmpty(params), out)
                 ELSE NotFound
            msg == IF ~valid THEN MsgCreateFailed
                   ELSE IF r.raised THEN Rejected ELSE MsgCreated
        IN /\ Counted
           /\ Commit(r)
           /\ now' = IF valid THEN clock ELSE now
           /\ created' = IF valid
                         THEN Append(created, [id |-> r.ev.id,
                                               returned |-> ~r.raised])
                         ELSE created
           /\ last' = [Call("CREATE_EVENT", r.ev.id, <<>>, Undefined, r, msg)
                          EXCEPT !.params = params]
           /\ UNCHANGED <<variant, dbOpen, tableExists, rows,
                          writeFailed, ready,
                        storageUnavailable, writeRaised, aiResponseText, action,
                   lastIndex, ai>>

\* case 'READ_EVENTS': findEventsByTitle throws on a title that is not a
\* string, and nothing catches it.
ExecRead ==
    \E params \in ReadParams :
        LET byTitle == TruthyTitle(params)
            r == IF byTitle /\ filterThrows(events) THEN Threw ELSE NotFound
            found == IF r.raised THEN <<>>
                     ELSE IF byTitle THEN findEventsByTitle(params.title)
                     ELSE getAllEvents
        IN /\ Counted
           /\ last' = [Call("READ_EVENTS", "", <<>>, Undefined, r,
                            IF r.raised THEN Rejected ELSE <<>>)
                          EXCEPT !.params = params, !.res = found]
           /\ held' = IF r.raised THEN held
                      ELSE IF byTitle THEN HoldMatches(params.title)
                      ELSE HoldSnapshot
           /\ UNCHANGED <<variant, now, events, subscribers, dbOpen,
                          tableExists, rows, pending, writeFailed, created, ready,
                          raced,
                        storageUnavailable, writeRaised, aiResponseText, action,
                   lastIndex, ai>>

\* case 'UPDATE_EVENT': whatever is thrown inside the try block, by
\* JSON.parse, by the property read of a null, by updateEventByTitle or by a
\* callback it notifies, is caught.
ExecUpdate ==
    \E params \in UpdateParams :
      LET given == TruthyTitle(params) /\ Truthy(params, "updates")
          parsed == IF given THEN JSONparse(params.updates)
                    ELSE [kind |-> "none", val |-> NoFields]
          \* null.startTime throws; a number and an array have no startTime
          reaches == parsed.kind \in {"object", "array", "number"}
          hit == reaches /\ ~findThrows(events, params.title)
                 /\ findIndexByTitle(events, params.title) # 0
      IN \E out \in Outcomes(hit) :
          LET r == IF reaches
                   THEN updateEventByTitle(params.title,
                                           convertDates(parsed.val), out)
                   ELSE NotFound
              msg == IF ~given THEN MsgUpdateMissing
                     ELSE IF ~reaches \/ r.raised THEN MsgUpdateError
                     ELSE IF r.applied THEN MsgUpdated(params.title)
                     ELSE MsgNoSuchTitle(params.title)
          IN /\ Counted
             /\ Commit(r)
             /\ last' = [Call("UPDATE_EVENT", r.ev.id, <<>>, Undefined, r, msg)
                            EXCEPT !.raised = FALSE, !.params = params]
             /\ UNCHANGED <<variant, now, dbOpen, tableExists,
                            rows, writeFailed, created, ready,
                        storageUnavailable, writeRaised, aiResponseText, action,
                   lastIndex, ai>>

\* case 'DELETE_EVENT'
ExecDelete ==
    \E params \in DeleteParams :
      \E out \in Outcomes(TruthyTitle(params) /\ ~filterThrows(events)
                          /\ findEventsByTitle(params.title) # <<>>) :
        LET given == TruthyTitle(params)
            r == IF given THEN deleteEventByTitle(params.title, out)
                 ELSE NotFound
            msg == IF ~given THEN MsgDeleteMissing
                   ELSE IF r.raised THEN Rejected
                   ELSE IF r.applied THEN MsgDeleted(params.title)
                   ELSE MsgNoSuchTitle(params.title)
        IN /\ Counted
           /\ Commit(r)
           /\ last' = [Call("DELETE_EVENT", r.ev.id, <<>>, Undefined, r, msg)
                          EXCEPT !.params = params]
           /\ UNCHANGED <<variant, now, dbOpen, tableExists,
                          rows, writeFailed, created, ready,
                        storageUnavailable, writeRaised, aiResponseText, action,
                   lastIndex, ai>>

\* default
ExecUnknown ==
    \E command \in UnknownCommands :
        /\ Counted
        /\ last' = Call(command, "", <<>>, Undefined, NotFound,
                        MsgUnknown(command))
        /\ UNCHANGED <<variant, now, events, subscribers, dbOpen,
                       tableExists, rows, pending, writeFailed, created, ready,
                       raced,
                        storageUnavailable, writeRaised, aiResponseText, action,
                   lastIndex, held, ai>>

(* ------------------------ init and the database ----------------------- *)

\* init(): the tx variant issues the CREATE TABLE transaction, the async
\* variant first opens the database.
InitCall ==
    /\ Counted
    /\ pending' = Enqueue(pending, IF variant = "tx" THEN "schema" ELSE "open",
                          NoRow)
    /\ last' = Idle("init")
    /\ UNCHANGED <<variant, now, events, subscribers, dbOpen, tableExists,
                   rows, writeFailed, created, ready,
                   raced,
                        storageUnavailable, writeRaised, aiResponseText, action,
                   lastIndex, held, ai>>

\* openDatabaseAsync resolves: this.db is set and init goes on to execAsync.
\* Or it rejects: init rejects and this.db is what it was.
DbOpen ==
    /\ pending # <<>> /\ Head(pending).op = "open"
    /\ \E ok \in BOOLEAN :
          IF ok
          THEN /\ dbOpen' = TRUE
               /\ pending' = Enqueue(Tail(pending), "schema", NoRow)
               /\ UNCHANGED storageUnavailable
          ELSE /\ pending' = Tail(pending)
               /\ storageUnavailable' = TRUE
               /\ UNCHANGED dbOpen
    /\ UNCHANGED <<variant, now, events, subscribers, tableExists, rows,
                   writeFailed, created, ready, raced, last, calls,
                   writeRaised, aiResponseText, action,
                   lastIndex, held, ai>>

\* CREATE TABLE IF NOT EXISTS is done: init goes on to loadEvents, which
\* issues the SELECT.  Or the statement fails: init rejects, loadEvents is
\* not called.
DbSchema ==
    /\ pending # <<>> /\ Head(pending).op = "schema"
    /\ \E ok \in BOOLEAN :
          IF ok
          THEN /\ tableExists' = TRUE
               /\ pending' = Enqueue(Tail(pending), "select", NoRow)
               /\ storageUnavailable' = FALSE
          ELSE /\ pending' = Tail(pending)
               /\ storageUnavailable' = TRUE
               /\ UNCHANGED tableExists
    /\ UNCHANGED <<variant, now, events, subscribers, dbOpen, rows,
                   writeFailed, created, ready, raced, last, calls,
                   writeRaised, aiResponseText, action,
                   lastIndex, held, ai>>

\* The database executes the SELECT * FROM events of loadEvents.  It
\* succeeds: loadEvents replaces the snapshot and notifies.  Or it fails: the
\* promise of loadEvents, and with it that of init(), is rejected; the
\* snapshot is what it was, nobody is notified and no load has completed.
DbSelect ==
    /\ pending # <<>> /\ Head(pending).op = "select"
    /\ pending' = Tail(pending)
    /\ \E ok \in BOOLEAN :
          IF ok
          THEN \E out \in notify(subscribers) :
                  /\ events' = loadEvents(rows)
                  /\ held' = Alias(held, How("load", 0, ""), events,
                                   loadEvents(rows))
                  /\ ready' = TRUE
                  /\ subscribers' = out.after
                  /\ last' = [Idle("loadEvents") EXCEPT !.applied = TRUE,
                                  !.notified = out.invoked,
                                  !.listenerThrew = out.threw,
                                  !.reentered = out.reentered,
                                  !.raised = out.threw]
          ELSE /\ last' = [Idle("loadEvents") EXCEPT !.raised = TRUE]
               /\ UNCHANGED <<events, held, ready, subscribers>>
    /\ UNCHANGED <<variant, now, dbOpen, tableExists, rows,
                   writeFailed, created, raced, calls,
                   storageUnavailable, writeRaised, aiResponseText, action,
                   lastIndex, ai>>

\* NOT NULL of title, startTime and endTime.
NotNullOk(row) ==
    IsString(row.title) /\ row.startTime # NaN /\ row.endTime # NaN

HasRow(id) == \E i \in 1..Len(rows) : rows[i].id = id

\* Whether the statement of a write request succeeds.
WriteOk(req) ==
    /\ tableExists
    /\ req.op = "insert" => ~HasRow(req.row.id) /\ NotNullOk(req.row)
    /\ req.op = "update" => (HasRow(req.row.id) => NotNullOk(req.row))
    /\ req.op = "updateTitleDesc" =>
           (HasRow(req.row.id) => IsString(req.row.title))

\* The table after a write that succeeds.
Written(req) ==
    CASE req.op = "insert" -> Append(rows, req.row)
      [] req.op = "update" ->
            [i \in 1..Len(rows) |->
                IF rows[i].id = req.row.id
                THEN [req.row EXCEPT !.key = rows[i].key] ELSE rows[i]]
      [] req.op = "updateTitleDesc" ->
            [i \in 1..Len(rows) |->
                IF rows[i].id = req.row.id
                THEN [rows[i] EXCEPT !.title = req.row.title,
                                     !.description = req.row.description]
                ELSE rows[i]]
      [] req.op = "delete" -> FilterOut(rows, req.row.id)

\* The database executes the oldest INSERT / UPDATE / DELETE request.  The
\* statement fails when it breaks a constraint of the table, and may fail for
\* a reason outside the program (the disk is full, the file is locked).  The
\* failure goes to the promise of the call when the call awaits the request,
\* and to nobody otherwise.
DbWrite ==
    /\ pending # <<>>
    /\ Head(pending).op \in {"insert", "update", "updateTitleDesc", "delete"}
    /\ pending' = Tail(pending)
    /\ \E ok \in (IF WriteOk(Head(pending)) THEN BOOLEAN ELSE {FALSE}) :
          IF ok
          THEN rows' = Written(Head(pending))
               /\ UNCHANGED <<writeFailed, writeRaised>>
          ELSE writeFailed' = TRUE
               /\ writeRaised' = (writeRaised \/ Head(pending).awaited)
               /\ UNCHANGED rows
    /\ UNCHANGED <<variant, now, events, subscribers, dbOpen, tableExists,
                   created, ready, raced, last, calls, storageUnavailable, aiResponseText, action,
                   lastIndex, held, ai>>

(* ------------------------------ the parser ---------------------------- *)

\* The literal ACTION: of the outer pattern.
ActionPrefix == <<"A", "C", "T", "I", "O", "N", ":">>

\* The characters of the texts that \w matches.
WordChars == {"A", "C", "T", "I", "O", "N", "R", "a", "b", "j", "k", "v",
              "x", "y", "_", "p", "r", "o", "t"}

\* The key the assignment params[key] = value does not define: on a plain
\* object it calls the __proto__ setter, which ignores a string.
ProtoKey == <<"_", "_", "p", "r", "o", "t", "o", "_", "_">>

\* (\w+), greedy: the end of the run of word characters that starts at i,
\* i - 1 when there is none.
RECURSIVE WordRunEnd(_, _)
WordRunEnd(s, i) ==
    IF i <= Len(s) /\ s[i] \in WordChars THEN WordRunEnd(s, i + 1) ELSE i - 1

\* The position of the last c in s, 0 when there is none.
LastIndexOf(s, c) ==
    IF \E i \in 1..Len(s) : s[i] = c
    THEN CHOOSE i \in 1..Len(s) : s[i] = c /\ \A j \in (i + 1)..Len(s) : s[j] # c
    ELSE 0

\* A variant of MatchAt that would not ask for the closing parenthesis: C27
\* does not hold of it.
MatchAtUnclosed(t, st) ==
    LET e == WordRunEnd(t, st + 7)
    IN /\ st + 6 <= Len(t) /\ SubSeq(t, st, st + 6) = ActionPrefix
       /\ e >= st + 7
       /\ e + 1 <= Len(t) /\ t[e + 1] = "("

\* /ACTION:(\w+)\((.*)\)/s matches at position st: ACTION:, the longest run
\* of word characters, an opening parenthesis and, dot matching every
\* character, everything up to the last closing parenthesis of the text.
MatchAt(t, st) ==
    LET e == WordRunEnd(t, st + 7)
    IN /\ st + 6 <= Len(t) /\ SubSeq(t, st, st + 6) = ActionPrefix
       /\ e >= st + 7
       /\ e + 1 <= Len(t) /\ t[e + 1] = "("
       /\ LastIndexOf(t, ")") > e + 1

\* A variant of ValueEnd that would take the end of the text for a closing
\* quote: C30 does not hold of it.
RECURSIVE ValueEndLenient(_, _, _)
ValueEndLenient(s, p, lastEsc) ==
    IF p > Len(s) THEN p
    ELSE IF s[p] = "\\" /\ p < Len(s) /\ s[p + 1] = "\"" THEN ValueEndLenient(s, p + 2, p)
    ELSE IF s[p] # "\"" THEN ValueEndLenient(s, p + 1, lastEsc)
    ELSE p

\* ((?:\\"|[^"])*)" from position p: the position of the closing quote, 0
\* when the value does not close.  The star takes an escaped quote or any
\* character but a quote for as long as it can; at the end of the text it
\* backtracks to the last escaped quote, takes its backslash for a plain
\* character and its quote for the closing one.
RECURSIVE ValueEnd(_, _, _)
ValueEnd(s, p, lastEsc) ==
    IF p > Len(s) THEN (IF lastEsc = 0 THEN 0 ELSE lastEsc + 1)
    ELSE IF s[p] = "\\" /\ p < Len(s) /\ s[p + 1] = "\"" THEN ValueEnd(s, p + 2, p)
    ELSE IF s[p] # "\"" THEN ValueEnd(s, p + 1, lastEsc)
    ELSE p

\* /(\w+)="((?:\\"|[^"])*)"/ matches at position i.
PairAt(s, i) ==
    LET e == WordRunEnd(s, i)
    IN /\ e >= i
       /\ e + 2 <= Len(s) /\ s[e + 1] = "=" /\ s[e + 2] = "\""
       /\ ValueEnd(s, e + 3, 0) # 0

\* value.replace(/\\"/g, '"')
RECURSIVE unescape(_)
unescape(v) ==
    IF v = <<>> THEN <<>>
    ELSE IF Len(v) >= 2 /\ v[1] = "\\" /\ v[2] = "\""
         THEN <<"\"">> \o unescape(SubSeq(v, 3, Len(v)))
         ELSE <<v[1]>> \o unescape(Tail(v))

\* const params = {}
NoPairs == [k \in {} |-> <<>>]

\* params[key] = value
SetParam(params, key, value) ==
    IF key = ProtoKey THEN params
    ELSE [k \in DOMAIN params \cup {key} |->
             IF k = key THEN value ELSE params[k]]

\* paramRegex.exec(paramsStr) with lastIndex = from: the leftmost match
\* that starts at or after it, and the lastIndex it leaves: the end of the
\* match, 0 when there is none.
exec(s, from) ==
    LET starts == {i \in (from + 1)..Len(s) : PairAt(s, i)}
    IN IF starts = {}
       THEN [found |-> FALSE, key |-> <<>>, value |-> <<>>, lastIndex |-> 0]
       ELSE LET i == CHOOSE x \in starts : \A y \in starts : x <= y
                e == WordRunEnd(s, i)
                c == ValueEnd(s, e + 3, 0)
            IN [found |-> TRUE, key |-> SubSeq(s, i, e),
                value |-> SubSeq(s, e + 3, c - 1), lastIndex |-> c]

\* What parse returns: null, or an Action; while its loop runs, the
\* command and the params assigned so far.
NotParsed == [kind |-> "unparsed", command |-> <<>>, params |-> NoPairs]
NoCommand == [kind |-> "null", command |-> <<>>, params |-> NoPairs]

\* text.match(/ACTION:(\w+)\((.*)\)/s): the leftmost match, its command
\* and its paramsStr.
match(t) ==
    LET starts == {st \in 1..Len(t) : MatchAt(t, st)}
    IN IF starts = {}
       THEN [found |-> FALSE, command |-> <<>>, paramsStr |-> <<>>]
       ELSE LET st == CHOOSE x \in starts : \A y \in starts : x <= y
                e == WordRunEnd(t, st + 7)
            IN [found |-> TRUE, command |-> SubSeq(t, st + 7, e),
                paramsStr |-> SubSeq(t, e + 2, LastIndexOf(t, ")") - 1)]

\* The texts handed to parse.  Pieces put together in every way:
MaxPieces == 4
Pieces == {ActionPrefix, <<"N">>, <<"(">>, <<")">>, <<"k", "=", "\"">>, <<"v">>,
           <<"\"">>, <<"\\", "\"">>}

RECURSIVE Flatten(_)
Flatten(ps) == IF ps = <<>> THEN <<>> ELSE Head(ps) \o Flatten(Tail(ps))

PieceTexts ==
    {Flatten(ps) : ps \in UNION {[1..n -> Pieces] : n \in 0..MaxPieces}}

\* and commands written out, ACTION:NAME(k1="v1", ..., kn="vn"), with up to
\* MaxPairs pairs; a quote in a value is written \".
MaxPairs == 2
Names == {<<"N">>, <<"C", "R">>}
ParamKeys == {<<"k">>, <<"j">>, ProtoKey}
ParamValues == {<<>>, <<"v">>, <<"a", "\"", "b">>,
                <<"x", ")", ",", "j", "=", "\"", "y", "\"">>}
PairLists ==
    UNION {[1..n -> [key : ParamKeys, value : ParamValues]] : n \in 0..MaxPairs}

RECURSIVE escape(_)
escape(v) ==
    IF v = <<>> THEN <<>>
    ELSE (IF Head(v) = "\"" THEN <<"\\", "\"">> ELSE <<Head(v)>>)
         \o escape(Tail(v))

RECURSIVE Arguments(_)
Arguments(pairs) ==
    IF pairs = <<>> THEN <<>>
    ELSE Head(pairs).key \o <<"=", "\"">> \o escape(Head(pairs).value)
         \o <<"\"">>
         \o (IF Len(pairs) > 1 THEN <<",", " ">> ELSE <<>>)
         \o Arguments(Tail(pairs))

WrittenOut(name, pairs) ==
    ActionPrefix \o name \o <<"(">> \o Arguments(pairs) \o <<")">>

\* The same with the closing quote of the last value left out.
Unclosed(name, pairs) ==
    LET args == Arguments(pairs)
    IN ActionPrefix \o name \o <<"(">> \o SubSeq(args, 1, Len(args) - 1) \o <<")">>

WrittenTexts == {WrittenOut(n, ps) : n \in Names, ps \in PairLists}
UnclosedTexts == {Unclosed(n, ps) : n \in Names, ps \in PairLists \ {<<>>}}

\* A written command with text after its closing parenthesis: a second
\* command, or words in parentheses.
FewPairLists ==
    UNION {[1..n -> [key : ParamKeys, value : ParamValues]] : n \in 0..1}
Trailers ==
    {<<" ">> \o WrittenOut(n, ps) : n \in Names, ps \in FewPairLists}
    \cup {<<" ", "(">> \o Arguments(ps) \o <<")">> : ps \in FewPairLists}
TrailedTexts ==
    {WrittenOut(n, ps) \o t : n \in Names, ps \in FewPairLists, t \in Trailers}

Texts == PieceTexts \cup WrittenTexts \cup UnclosedTexts \cup TrailedTexts

\* ActionParser.parse, up to its loop: null when the pattern does not
\* match, the command with no params when paramsStr is empty.  Nothing in
\* its try block throws.
Parse ==
    /\ action = NotParsed
    /\ LET m == match(aiResponseText)
       IN action' =
            IF ~m.found THEN NoCommand
            ELSE [kind |-> IF m.paramsStr = <<>> THEN "command" ELSE "matching",
                  command |-> m.command, params |-> NoPairs]
    /\ lastIndex' = 0
    /\ UNCHANGED <<variant, now, events, subscribers, dbOpen, tableExists,
                   rows, pending, writeFailed, created, ready, raced, last,
                   calls, storageUnavailable, writeRaised, aiResponseText,
                   held, ai>>

\* One turn of while ((paramMatch = paramRegex.exec(paramsStr)) !== null):
\* the match is assigned to params, or the loop ends and parse returns.
Exec ==
    /\ action.kind = "matching"
    /\ LET m == exec(match(aiResponseText).paramsStr, lastIndex)
       IN /\ lastIndex' = m.lastIndex
          /\ action' =
               IF m.found
               THEN [action EXCEPT !.params = SetParam(@, m.key, unescape(m.value))]
               ELSE [action EXCEPT !.kind = "command"]
    /\ UNCHANGED <<variant, now, events, subscribers, dbOpen, tableExists,
                   rows, pending, writeFailed, created, ready, raced, last,
                   calls, storageUnavailable, writeRaised, aiResponseText,
                   held, ai>>

(* ----------------------------- the AIService -------------------------- *)

\* The calls of init() and getAIResponse() made in one run.
MaxAICalls == 3

\* A new AIService: context = null, initPromise = null.  `started` counts
\* the calls of initializeContext, `stage` is the await the one in progress
\* is at, `calls` the calls of init and getAIResponse in the order made.
NewAIService ==
    [context |-> FALSE, initPromise |-> "null", started |-> 0,
     stage |-> "none", calls |-> <<>>]

\* A call: what it awaits (`awaits`: the number of the initializeContext,
\* 0 when the context was there), where it is, and whether this.context
\* was set when it asked for the completion.
AICall(method, pc, awaits) ==
    [method |-> method, pc |-> pc, awaits |-> awaits, withContext |-> FALSE]

\* An ensureInitialized that would not look at initPromise: C32 does not
\* hold of it.
ensureInitializedUnguarded(a, method) ==
    IF a.context
    THEN [a EXCEPT !.calls = Append(@, AICall(method, "initialized", 0))]
    ELSE [a EXCEPT !.initPromise = "pending",
                   !.started = @ + 1,
                   !.stage = "downloadAsync",
                   !.calls = Append(@, AICall(method, "awaiting", a.started + 1))]

\* ensureInitialized, up to its await: nothing is started when the context
\* is there or an initialisation has been started; otherwise
\* initializeContext runs up to its first await, modelAsset.downloadAsync().
ensureInitialized(a, method) ==
    IF a.context
    THEN [a EXCEPT !.calls = Append(@, AICall(method, "initialized", 0))]
    ELSE IF a.initPromise # "null"
    THEN [a EXCEPT !.calls = Append(@, AICall(method, "awaiting", a.started))]
    ELSE [a EXCEPT !.initPromise = "pending",
                   !.started = @ + 1,
                   !.stage = "downloadAsync",
                   !.calls = Append(@, AICall(method, "awaiting", a.started + 1))]

\* init() and getAIResponse(message) are called.
AIInit ==
    /\ Len(ai.calls) < MaxAICalls
    /\ \E method \in {"init", "getAIResponse"} :
          ai' = ensureInitialized(ai, method)
    /\ UNCHANGED <<variant, now, events, subscribers, dbOpen, tableExists,
                   rows, pending, writeFailed, created, ready, raced, last,
                   calls, storageUnavailable, writeRaised, aiResponseText,
                   action, lastIndex, held>>

\* initializeContext goes on after an await: the download, getInfoAsync
\* and copyAsync (whose failures are caught), initLlama.  A failed download
\* or initLlama rejects initPromise; initLlama's context is assigned and
\* initPromise is fulfilled in one job.
AIInitializeContext ==
    /\ ai.initPromise = "pending"
    /\ \E okay \in BOOLEAN, exists \in BOOLEAN :
          ai' =
            IF ai.stage = "downloadAsync"
            THEN IF okay THEN [ai EXCEPT !.stage = "getInfoAsync"]
                 ELSE [ai EXCEPT !.stage = "failed", !.initPromise = "rejected"]
            ELSE IF ai.stage = "getInfoAsync"
            THEN IF okay /\ ~exists THEN [ai EXCEPT !.stage = "copyAsync"]
                 ELSE [ai EXCEPT !.stage = "initLlama"]
            ELSE IF ai.stage = "copyAsync"
            THEN [ai EXCEPT !.stage = "initLlama"]
            ELSE IF okay
                 THEN [ai EXCEPT !.stage = "done", !.context = TRUE,
                                 !.initPromise = "fulfilled"]
                 ELSE [ai EXCEPT !.stage = "failed", !.initPromise = "rejected"]
    /\ UNCHANGED <<variant, now, events, subscribers, dbOpen, tableExists,
                   rows, pending, writeFailed, created, ready, raced, last,
                   calls, storageUnavailable, writeRaised, aiResponseText,
                   action, lastIndex, held>>

\* The await of a call is over: init() settles as initPromise did;
\* getAIResponse goes on to the completion, or is rejected, its await being
\* outside the try block.
AIResume ==
    /\ \E i \in 1..Len(ai.calls) :
          /\ ai.calls[i].pc = "awaiting"
          /\ ai.initPromise \in {"fulfilled", "rejected"}
          /\ ai' = [ai EXCEPT !.calls[i].pc =
                        IF ai.initPromise = "fulfilled" THEN "initialized"
                        ELSE "rejected"]
    /\ UNCHANGED <<variant, now, events, subscribers, dbOpen, tableExists,
                   rows, pending, writeFailed, created, ready, raced, last,
                   calls, storageUnavailable, writeRaised, aiResponseText,
                   action, lastIndex, held>>

\* getAIResponse asks for the completion: this.context.completion(...).
AICompletion ==
    /\ \E i \in 1..Len(ai.calls) :
          /\ ai.calls[i].method = "getAIResponse"
          /\ ai.calls[i].pc = "initialized"
          /\ ai' = [ai EXCEPT !.calls[i].pc = "completion",
                              !.calls[i].withContext = ai.context]
    /\ UNCHANGED <<variant, now, events, subscribers, dbOpen, tableExists,
                   rows, pending, writeFailed, created, ready, raced, last,
                   calls, storageUnavailable, writeRaised, aiResponseText,
                   action, lastIndex, held>>

\* The completion is over: its text, or the message of the catch block, is
\* returned.
AIAnswer ==
    /\ \E i \in 1..Len(ai.calls) :
          /\ ai.calls[i].pc = "completion"
          /\ ai' = [ai EXCEPT !.calls[i].pc = "answered"]
    /\ UNCHANGED <<variant, now, events, subscribers, dbOpen, tableExists,
                   rows, pending, writeFailed, created, ready, raced, last,
                   calls, storageUnavailable, writeRaised, aiResponseText,
                   action, lastIndex, held>>

(* --------------------------- specification ---------------------------- *)

Init ==
    /\ variant \in {"tx", "async"}
    /\ now = 1
    /\ events = <<>>
    /\ subscribers = <<>>
    /\ dbOpen = (variant = "tx")
    /\ \E old \in BOOLEAN :
          /\ tableExists = old
          /\ rows = IF old THEN <<OldRow>> ELSE <<>>
    /\ pending = <<>>
    /\ writeFailed = FALSE
    /\ created = <<>>
    /\ ready = FALSE
    /\ raced = FALSE
    /\ last = Idle("constructor")
    /\ calls = 0
    /\ storageUnavailable = FALSE
    /\ writeRaised = FALSE
    /\ aiResponseText = <<>>
    /\ action = NotParsed
    /\ lastIndex = 0
    /\ held = NotHeld
    /\ ai = NewAIService

Next ==
    \/ Subscribe
    \/ Unsubscribe
    \/ CreateEvent
    \/ UpdateEventByTitle
    \/ DeleteEventByTitle
    \/ UpdateEvent
    \/ DeleteEvent
    \/ FindEventsByTitle
    \/ GetAllEvents
    \/ ExecCreate
    \/ ExecRead
    \/ ExecUpdate
    \/ ExecDelete
    \/ ExecUnknown
    \/ InitCall
    \/ DbOpen
    \/ DbSchema
    \/ DbSelect
    \/ DbWrite

Spec == Init /\ [][Next]_vars

\* The parser on its own: a text is handed to parse, the store is idle.
InitParse ==
    /\ aiResponseText \in Texts
    /\ action = NotParsed
    /\ lastIndex = 0
    /\ held = NotHeld
    /\ ai = NewAIService
    /\ variant = "tx"
    /\ now = 1
    /\ events = <<>>
    /\ subscribers = <<>>
    /\ dbOpen = TRUE
    /\ tableExists = FALSE
    /\ rows = <<>>
    /\ pending = <<>>
    /\ writeFailed = FALSE
    /\ created = <<>>
    /\ ready = FALSE
    /\ raced = FALSE
    /\ last = Idle("constructor")
    /\ calls = 0
    /\ storageUnavailable = FALSE
    /\ writeRaised = FALSE

NextParse ==
    \/ Parse
    \/ Exec

SpecParse == InitParse /\ [][NextParse]_vars

\* The AIService on its own: calls of init and getAIResponse, interleaved
\* at every await.
NextAI ==
    \/ AIInit
    \/ AIInitializeContext
    \/ AIResume
    \/ AICompletion
    \/ AIAnswer

SpecAI == Init /\ [][NextAI]_vars

(* ------------------------------ claims -------------------------------- *)

MutatingOps == {"createEvent", "updateEventByTitle", "deleteEventByTitle",
                "updateEvent", "deleteEvent", "CREATE_EVENT", "UPDATE_EVENT",
                "DELETE_EVENT"}
DeleteOps == {"deleteEvent", "deleteEventByTitle", "DELETE_EVENT"}
Commands == {"CREATE_EVENT", "READ_EVENTS", "UPDATE_EVENT", "DELETE_EVENT"}
             \cup UnknownCommands

\* The keys of the events of a snapshot that createEvent made in this run.
Keys(evs) == {evs[i].key : i \in 1..Len(evs)} \ {0}

\* C1: no two events of the snapshot have the same id, and createEvent never
\* assigns an id it has assigned before (to an event deleted since or not),
\* also when two creates read the same clock millisecond.
C1_IdsAreUnique ==
    /\ \A i, j \in 1..Len(events) : i # j => events[i].id # events[j].id
    /\ \A i, j \in 1..Len(created) : i # j => created[i].id # created[j].id

\* The table holds exactly the events of the snapshot, field by field.
BackendEqualsSnapshot ==
    /\ Len(rows) = Len(events)
    /\ \A i \in 1..Len(events) :
          \E j \in 1..Len(rows) : Pub(loadEvents(rows)[j]) = Pub(events[i])
    /\ \A j \in 1..Len(rows) :
          \E i \in 1..Len(events) : Pub(loadEvents(rows)[j]) = Pub(events[i])

\* C2: when the store was loaded before its first mutation and is not
\* loading, every write issued has succeeded and none is pending, the table
\* holds exactly the events of the snapshot with equal fields.
C2_BackendCatchesUp ==
    (ready /\ ~raced /\ pending = <<>> /\ ~writeFailed) => BackendEqualsSnapshot

\* C3: a call that changed the snapshot (a create, an update, a delete, the
\* load of init) has invoked every registered callback, in registration
\* order.
C3_AllListenersNotified ==
    last.applied => last.notified = last.registered

\* C4: when a callback throws during a mutation, the callbacks after it are
\* still invoked, the call returns normally and the write is still issued.
C4_ThrowingListenerIsolated ==
    (last.op \in MutatingOps /\ last.listenerThrew) =>
        /\ last.notified = last.registered
        /\ ~last.raised
        /\ last.msg # Rejected
        /\ last.queued

\* C5: execute() always completes with a result; its promise is never
\* rejected.
C5_ExecuteNeverRejects ==
    last.op \in Commands => last.msg # Rejected

\* C6: every event of the snapshot has the id createEvent assigned to it
\* (the id of its row, for an event of an earlier session).
C6_IdIsImmutable ==
    \A i \in 1..Len(events) :
        events[i].id = IF events[i].key = 0 THEN OldRow.id
                       ELSE created[events[i].key].id

\* C7: an event createEvent returned leaves the snapshot only by a delete
\* call.
C7_OnlyDeleteRemoves ==
    [][\A k \in Keys(events) :
          (created[k].returned /\ last'.op \notin DeleteOps)
              => k \in Keys(events')]_vars

\* C8: right after createEvent returns an event, getEventById of its id
\* returns an event with the same fields.
C8_GetByIdAfterCreate ==
    (last.op = "createEvent" /\ ~last.raised) =>
        Pub(getEventById(last.ev.id)) = Pub(last.ev)

\* C9: updateEvent(id, T) with no description, on an id of the snapshot,
\* makes getEventById(id) an event with title T whose id, startTime, endTime
\* and description are those it had before.
C9_TitleOnlyUpdate ==
    [][(calls' # calls /\ last'.op = "updateEvent" /\ last'.applied
        /\ last'.description = Undefined) =>
          LET before == getEventByIdIn(events, last'.id)
              after == getEventByIdIn(events', last'.id)
          IN /\ after.title = last'.title
             /\ after.id = before.id
             /\ after.startTime = before.startTime
             /\ after.endTime = before.endTime
             /\ after.description = before.description]_vars

\* C10: right after deleteEvent(id), getEventById(id) finds nothing and no
\* event of getAllEvents() has that id.
C10_DeletedIdIsGone ==
    last.op = "deleteEvent" =>
        /\ getEventById(last.id) = NoEvent
        /\ \A i \in 1..Len(getAllEvents) : getAllEvents[i].id # last.id

(* --------------------------- claims C11 - C20 -------------------------- *)

\* The events of a snapshot whose lower-cased title contains the lower-cased
\* query, in snapshot order.
TitleContains(evs, q) ==
    SelectSeq(evs, LAMBDA e : includes(toLowerCase(e.title), toLowerCase(q)))

\* C11: findEventsByTitle(q) returns exactly the events of the snapshot
\* whose lower-cased title contains the lower-cased q, each once, in
\* snapshot order, whatever the snapshot.
C11_FindByTitleExact ==
    last.op = "findEventsByTitle" =>
        /\ ~last.raised
        /\ last.res = TitleContains(events, last.title)

WriteOps == {"insert", "update", "updateTitleDesc", "delete"}

\* C12: when the database ends a write, failed or not, the snapshot is what
\* it was and no failure is raised to the caller of the mutation.
C12_WriteFailureNotRaised ==
    [][(pending # <<>> /\ Head(pending).op \in WriteOps
        /\ pending' = Tail(pending)) =>
          (events' = events /\ writeRaised' = writeRaised)]_vars

\* C13: when the SELECT of init succeeds, the snapshot becomes one event
\* per row of the table, in row order and with the fields of the row (a NULL
\* description is an absent one), whatever the snapshot held before.  A
\* SELECT that fails rejects init: it is not a case of the claim.
C13_LoadReplacesSnapshot ==
    [][(pending # <<>> /\ Head(pending).op = "select"
        /\ pending' = Tail(pending) /\ last'.applied) =>
          /\ Len(events') = Len(rows)
          /\ \A i \in 1..Len(rows) :
                /\ events'[i].id = rows[i].id
                /\ events'[i].title = rows[i].title
                /\ events'[i].startTime = rows[i].startTime
                /\ events'[i].endTime = rows[i].endTime
                /\ events'[i].description =
                      IF rows[i].description = SqlNull THEN Undefined
                      ELSE rows[i].description]_vars

\* C13 witness: a load has replaced a snapshot that held an event created
\* before it by the row of an earlier session.
C13_Witness ==
    /\ last.op = "loadEvents" /\ last.applied /\ ~last.raised
    /\ created # <<>>
    /\ Len(events) = 1 /\ events[1].key = 0

\* C14: once init has failed to open the database or to create the table, no
\* call changes the snapshot.
C14_BrokenStoreAcceptsNothing ==
    [][(storageUnavailable /\ calls' # calls) => events' = events]_vars

StoreOps == {"createEvent", "updateEventByTitle", "deleteEventByTitle",
             "updateEvent", "deleteEvent", "findEventsByTitle", "subscribe",
             "unsubscribe"}

\* C15: before a load has completed no store call raises (a throwing
\* callback aside), and findEventsByTitle on a store that has accepted no
\* mutation returns no event.
C15_UsableBeforeInit ==
    (~ready /\ last.op \in StoreOps) =>
        /\ ~last.listenerThrew => ~last.raised
        /\ (last.op = "findEventsByTitle" /\ created = <<>>) => last.res = <<>>

\* C16: no store operation is executed during the fan-out of a mutation or
\* of a load, also when a callback calls the store while it is notified.
C16_NothingInsideFanOut ==
    last.applied => ~last.reentered

\* The number of times a callback occurs in a sequence of callbacks.
Count(s, cb) == Cardinality({i \in 1..Len(s) : s[i] = cb})

\* C17: a callback registered twice when a mutation is made is invoked
\* exactly twice by it.
C17_TwiceRegisteredTwiceInvoked ==
    (last.op \in MutatingOps /\ last.applied) =>
        \A cb \in Listeners :
            Count(last.registered, cb) = 2 => Count(last.notified, cb) = 2

\* C18: a dispatch of a command that is none of the four returns a message
\* that contains the name of the command, leaves the snapshot, the pending
\* writes and the registrations as they were and invokes no callback.
C18_UnknownCommand ==
    [][(calls' # calls /\ last'.op \in UnknownCommands) =>
          /\ \E i \in 1..Len(last'.msg) : last'.msg[i] = last'.op
          /\ last'.msg # Rejected
          /\ events' = events /\ pending' = pending
          /\ subscribers' = subscribers
          /\ last'.notified = <<>>]_vars

\* C18 witness: an unknown command was dispatched to a store that holds an
\* event, a pending write and a registered callback.
C18_Witness ==
    /\ last.op \in UnknownCommands
    /\ events # <<>> /\ pending # <<>> /\ subscribers # <<>>

\* C19: READ_EVENTS never fails and returns getAllEvents() when title is
\* absent or empty and findEventsByTitle(title) otherwise.
C19_ReadNeverFails ==
    last.op = "READ_EVENTS" =>
        /\ last.msg # Rejected
        /\ last.res =
              IF "title" \in DOMAIN last.params /\ last.params.title # <<>>
              THEN TitleContains(events, last.params.title)
              ELSE events

\* A param is absent or empty.
Missing(params, k) ==
    \/ k \notin DOMAIN params
    \/ params[k] = (IF k = "title" THEN <<>> ELSE "")

\* C20: CREATE_EVENT with title, startTime or endTime absent or empty
\* returns the failure string, leaves the snapshot and the pending writes as
\* they were and invokes no callback.
C20_CreateMissingParams ==
    [][(calls' # calls /\ last'.op = "CREATE_EVENT"
        /\ \E k \in {"title", "startTime", "endTime"} :
              Missing(last'.params, k)) =>
          /\ last'.msg = MsgCreateFailed
          /\ events' = events /\ pending' = pending
          /\ last'.notified = <<>>]_vars

\* C20 witness: a CREATE_EVENT without all three params was dispatched to a
\* store that holds an event and a registered callback.
C20_Witness ==
    /\ last.op = "CREATE_EVENT"
    /\ \E k \in {"title", "startTime", "endTime"} : Missing(last.params, k)
    /\ events # <<>> /\ subscribers # <<>>

(* --------------------------- claims C21 - C26 -------------------------- *)

\* C21: a CREATE_EVENT whose startTime or endTime is no timestamp creates
\* no event and does not return the success confirmation.
C21_CreateNeedsTimestamps ==
    (/\ last.op = "CREATE_EVENT"
     /\ {"startTime", "endTime"} \subseteq DOMAIN last.params
     /\ \/ DateParse(last.params.startTime) = NaN
        \/ DateParse(last.params.endTime) = NaN) =>
        (last.msg # MsgCreated /\ ~last.applied)

\* The dispatch made by a step is an UPDATE_EVENT with a title and updates.
UpdateDispatched(l) ==
    /\ l.op = "UPDATE_EVENT"
    /\ ~Missing(l.params, "title") /\ ~Missing(l.params, "updates")

\* C22: an UPDATE_EVENT whose updates are no JSON object (invalid JSON, null,
\* a number, an array) returns a string that reports no success, raises
\* nothing and leaves every event as it was.
C22_UpdatesMustBeAnObject ==
    [][(calls' # calls /\ UpdateDispatched(last')
        /\ JSONparse(last'.params.updates).kind # "object") =>
          /\ last'.msg # MsgUpdated(last'.params.title)
          /\ last'.msg # Rejected
          /\ events' = events]_vars

\* The position of the first event of a snapshot whose lower-cased title
\* contains the lower-cased query, 0 when there is none.
FirstMatch(evs, q) ==
    LET hits == {i \in 1..Len(evs) :
                    includes(toLowerCase(evs[i].title), toLowerCase(q))}
    IN IF hits = {} THEN 0
       ELSE CHOOSE i \in hits : \A j \in hits : i <= j

\* C23: an UPDATE_EVENT with a title and a JSON object as updates merges the
\* object into the first event whose title contains the query and returns
\* the success message with the query; when no title contains it, it
\* changes nothing and returns the not-found message with the query.
C23_UpdateFirstMatch ==
    [][(calls' # calls /\ UpdateDispatched(last')
        /\ JSONparse(last'.params.updates).kind = "object") =>
          LET q == last'.params.title
              u == convertDates(JSONparse(last'.params.updates).val)
              i == FirstMatch(events, q)
          IN IF i = 0
             THEN events' = events /\ last'.msg = MsgNoSuchTitle(q)
             ELSE /\ events' = [events EXCEPT ![i] = ObjectAssign(events[i], u)]
                  /\ last'.msg = MsgUpdated(q)]_vars

\* C24: a DELETE_EVENT with a title removes the first event whose title
\* contains the query, and that event only, and returns the success message
\* with the query; when no title contains it, it removes nothing and returns
\* the not-found message with the query.
C24_DeleteFirstMatch ==
    [][(calls' # calls /\ last'.op = "DELETE_EVENT"
        /\ ~Missing(last'.params, "title")) =>
          LET q == last'.params.title
              i == FirstMatch(events, q)
          IN IF i = 0
             THEN events' = events /\ last'.msg = MsgNoSuchTitle(q)
             ELSE events' = Splice(events, i) /\ last'.msg = MsgDeleted(q)]_vars

\* C25: an UPDATE_EVENT without a title or without updates, and a
\* DELETE_EVENT without a title, return their failure string and leave the
\* snapshot, the pending writes and the registrations as they were, and
\* invoke no callback.
C25_MissingTitleOrUpdates ==
    [][(/\ calls' # calls
        /\ \/ /\ last'.op = "UPDATE_EVENT"
              /\ Missing(last'.params, "title") \/ Missing(last'.params, "updates")
           \/ /\ last'.op = "DELETE_EVENT"
              /\ Missing(last'.params, "title")) =>
          /\ last'.msg = IF last'.op = "UPDATE_EVENT" THEN MsgUpdateMissing
                         ELSE MsgDeleteMissing
          /\ events' = events /\ pending' = pending
          /\ subscribers' = subscribers
          /\ last'.notified = <<>>]_vars

\* C25 witness: a DELETE_EVENT with an empty title was dispatched to a store
\* that holds an event and a registered callback.
C25_Witness ==
    /\ last.op = "DELETE_EVENT"
    /\ "title" \in DOMAIN last.params /\ last.params.title = <<>>
    /\ events # <<>> /\ subscribers # <<>>

\* C26: every event of the snapshot has a title that is a non-empty string.
C26_TitlesNonEmpty ==
    \A i \in 1..Len(events) :
        events[i].title # <<>> /\ events[i].title # NotAString


(* ------------------------- claims on the parser ----------------------- *)

\* parse has returned.
Parsed == action.kind \in {"null", "command"}

\* The text holds an occurrence of ACTION:<NAME>(<ARGS>): the literal, a
\* name of one or more word characters, an opening parenthesis and, after
\* any arguments, a closing one.
Occurs(t) ==
    \E st \in 1..Len(t) : \E e \in (st + 7)..Len(t) : \E c \in (e + 2)..Len(t) :
        /\ SubSeq(t, st, st + 6) = ActionPrefix
        /\ \A i \in (st + 7)..e : t[i] \in WordChars
        /\ t[e + 1] = "("
        /\ t[c] = ")"

\* C27: parse returns "no command", and nothing else, for every text that
\* holds no occurrence of ACTION:<NAME>(<ARGS>).
C27_NoPatternNoCommand ==
    (Parsed /\ ~Occurs(aiResponseText)) => action = NoCommand

\* C27, its case: the text ACTION:N( , whose parenthesis never closes, has
\* been parsed to "no command".
C27_Witness ==
    /\ aiResponseText = ActionPrefix \o <<"N", "(">>
    /\ action = NoCommand

\* The keys of the pairs are distinct.
DistinctKeys(pairs) ==
    \A i, j \in 1..Len(pairs) : pairs[i].key = pairs[j].key => i = j

\* The mapping the pairs write: each key to the value of its last pair.
LastValues(pairs) ==
    [k \in {pairs[i].key : i \in 1..Len(pairs)} |->
        pairs[CHOOSE i \in 1..Len(pairs) :
                 /\ pairs[i].key = k
                 /\ \A j \in (i + 1)..Len(pairs) : pairs[j].key # k].value]

\* C28: for the text ACTION:NAME(k1="v1", ..., kn="vn"), n >= 0 and the
\* keys distinct, parse returns the command NAME whose params map each ki
\* to vi, its escaped quotes unescaped, and nothing else.
C28_WrittenCommandParsed ==
    (Parsed /\ aiResponseText \in WrittenTexts) =>
        \A n \in Names, ps \in PairLists :
            (DistinctKeys(ps) /\ aiResponseText = WrittenOut(n, ps)) =>
                action = [kind |-> "command", command |-> n,
                          params |-> LastValues(ps)]

\* C29: when a key is written more than once in the arguments of a
\* command, the params returned map it to the value of its last occurrence.
C29_LastOccurrenceWins ==
    (Parsed /\ aiResponseText \in WrittenTexts) =>
        \A n \in Names, ps \in PairLists :
            aiResponseText = WrittenOut(n, ps) =>
                \A i, j \in 1..Len(ps) :
                    (i < j /\ ps[i].key = ps[j].key) =>
                        /\ ps[i].key \in DOMAIN action.params
                        /\ action.params[ps[i].key] = LastValues(ps)[ps[i].key]

\* The pairs but the last.
Front(pairs) == SubSeq(pairs, 1, Len(pairs) - 1)

\* The text begins ACTION:n( .
Named(n) ==
    LET head == ActionPrefix \o n \o <<"(">>
    IN /\ Len(head) <= Len(aiResponseText)
       /\ SubSeq(aiResponseText, 1, Len(head)) = head

\* What parse returns for a written command whose last quote never
\* closes: the command, with the parameters written before the last pair
\* kept (the last key apart) and none but written keys; a last pair new in
\* key and without a quote in its value gives no parameter.
PartialCommand ==
    aiResponseText \in UnclosedTexts =>
    \A n \in Names : Named(n) => \A ps \in PairLists \ {<<>>} :
        aiResponseText = Unclosed(n, ps) =>
            LET lastKey == ps[Len(ps)].key
                written == LastValues(Front(ps))
            IN /\ action.kind = "command"
               /\ action.command = n
               /\ DOMAIN action.params \subseteq
                      {ps[i].key : i \in 1..Len(ps)}
               /\ \A k \in DOMAIN written \ {lastKey, ProtoKey} :
                      /\ k \in DOMAIN action.params
                      /\ action.params[k] = written[k]
               /\ (/\ lastKey \notin DOMAIN written
                   /\ \A i \in 1..Len(ps[Len(ps)].value) :
                          ps[Len(ps)].value[i] # "\"")
                      => lastKey \notin DOMAIN action.params

\* C30: parse ends on every text, a quote never closed included: each turn
\* of its loop moves lastIndex forward within the text, and the step that
\* finds no match returns; what it returns is a command, with part of the
\* parameters when a quote is left open, or "no command".
C30_ParseTerminates ==
    /\ [](action.kind \in {"unparsed", "matching", "null", "command"})
    /\ [](Parsed => PartialCommand)
    /\ [][/\ action.kind = "matching" /\ action'.kind = "matching"
             => lastIndex < lastIndex' /\ lastIndex' <= Len(aiResponseText)
          /\ action.kind = "matching" /\ action'.kind # "matching"
             => action'.kind = "command"
          /\ action = NotParsed
             => action'.kind \in {"matching", "null", "command"}]_vars

\* C30, its case: ACTION:N(k="v", j="v) , the quote of j never closed, has
\* been parsed to the command N with k alone.
C30_Witness ==
    /\ aiResponseText = Unclosed(<<"N">>, <<[key |-> <<"k">>, value |-> <<"v">>],
                                          [key |-> <<"j">>, value |-> <<"v">>]>>)
    /\ action.kind = "command"
    /\ DOMAIN action.params = {<<"k">>}


(* ------------------------- claims, third part ------------------------- *)

\* C31: the sequence a read returned (getAllEvents, READ_EVENTS) holds what
\* it held when it was returned, whatever is created, updated, deleted or
\* loaded afterwards.
C31_ReturnedIsSnapshot == held.taken => held.seen = held.then

\* C32: however calls of init() and getAIResponse() interleave,
\* initializeContext is started at most once, every call awaits that one
\* initialisation unless the context was there when it was made, no call
\* goes on before the context is set, and no completion is asked for
\* without it.
C32_InitializedOnce ==
    /\ ai.started <= 1
    /\ \A i \in 1..Len(ai.calls) :
          /\ ai.calls[i].awaits \in {0, 1}
          /\ ai.calls[i].awaits = 0 => ai.context
          /\ ai.calls[i].pc \in {"initialized", "completion", "answered"}
                => ai.context
          /\ ai.calls[i].pc \in {"completion", "answered"}
                => ai.calls[i].withContext

\* C32, its case: two calls made while the one initialisation was pending
\* have awaited it, and one of them has asked for its completion.
C32_Witness ==
    /\ ai.started = 1
    /\ \E i, j \in 1..Len(ai.calls) :
          /\ i # j
          /\ ai.calls[i].awaits = 1 /\ ai.calls[j].awaits = 1
          /\ ai.calls[i].pc # "awaiting"
          /\ ai.calls[j].pc = "completion"

\* The call recorded in l found no target in evs: no event with its id, no
\* title that contains its query.
NoTarget(l, evs) ==
    \/ /\ l.op \in {"updateEvent", "deleteEvent"}
       /\ \A i \in 1..Len(evs) : evs[i].id # l.id
    \/ /\ l.op \in {"updateEventByTitle", "deleteEventByTitle"}
       /\ FirstMatch(evs, l.title) = 0

\* C33: a mutation of the store that finds no target returns not found or
\* false, leaves the snapshot as it was, invokes no callback and queues no
\* write.
C33_NoTargetNoEffect ==
    [][(calls' # calls /\ NoTarget(last', events)) =>
          /\ ~last'.ok /\ ~last'.raised
          /\ events' = events
          /\ last'.notified = <<>>
          /\ pending' = pending]_vars

\* The call recorded in l is a dispatch of CREATE_EVENT, UPDATE_EVENT or
\* DELETE_EVENT that returned a failure or not-found message.
DispatchFailed(l) ==
    /\ l.op \in {"CREATE_EVENT", "UPDATE_EVENT", "DELETE_EVENT"}
    /\ \/ l.msg \in {MsgCreateFailed, MsgUpdateMissing, MsgUpdateError,
                     MsgDeleteMissing}
       \/ /\ "title" \in DOMAIN l.params
          /\ l.msg = MsgNoSuchTitle(l.params.title)

\* C34: when execute returns a failure or not-found message for
\* CREATE_EVENT, UPDATE_EVENT or DELETE_EVENT, the snapshot and the pending
\* writes are as before the dispatch and no callback was invoked.
C34_FailureChangesNothing ==
    [][(calls' # calls /\ DispatchFailed(last')) =>
          /\ events' = events
          /\ pending' = pending
          /\ last'.notified = <<>>]_vars

\* C35: updateEventByTitle and deleteEventByTitle with a query that some
\* title contains affect the first match in snapshot order and no other
\* event: an update keeps the length of the snapshot and changes the event
\* at the position of the match only; a delete takes out that one event and
\* keeps the others in their order.
C35_ExactlyOneEvent ==
    [][(calls' # calls /\ last'.op \in {"updateEventByTitle", "deleteEventByTitle"}
        /\ FirstMatch(events, last'.title) # 0) =>
          LET i == FirstMatch(events, last'.title)
          IN IF last'.op = "updateEventByTitle"
             THEN /\ Len(events') = Len(events)
                  /\ \A j \in 1..Len(events) : j # i => events'[j] = events[j]
                  /\ events'[i] # events[i] \/ last'.ev = events[i]
                  /\ last'.ev = events'[i]
             ELSE events' = Splice(events, i)]_vars

\* The callbacks of a sequence.
Registered(subs) == {subs[k] : k \in 1..Len(subs)}

\* A sequence of callbacks without one of them.
Without(subs, cb) == SelectSeq(subs, LAMBDA x : x # cb)

\* The step is the end of a load: the SELECT leaves the queue.
LoadStep ==
    /\ pending # <<>> /\ Head(pending).op = "select"
    /\ pending' = Tail(pending)

\* C36: unsubscribe takes out every registration of its callback and
\* leaves those of the others in their order; a callback comes to be
\* registered by subscribe alone; and a mutation or a load invokes only
\* callbacks registered when it is made: an unsubscribed callback is not
\* invoked again until it is subscribed again.
C36_UnsubscribedNotInvoked ==
    [][/\ last'.op = "unsubscribe" /\ calls' # calls
          => subscribers' = Without(subscribers, last'.id)
       /\ \A cb \in Registered(subscribers') \ Registered(subscribers) :
             last'.op = "subscribe" /\ last'.id = cb
       /\ calls' # calls \/ LoadStep
          => \A k \in 1..Len(last'.notified) :
                last'.notified[k] \in Registered(subscribers)]_vars

\* C36, its case: a callback registered twice has been unsubscribed.
C36_Witness ==
    /\ last.op = "unsubscribe" /\ last.id = "l1"
    /\ last.registered = <<"l1", "l1">>
    /\ subscribers = <<>>

\* C37: parse extracts one command: for a written command followed by
\* other text, a second command or words in parentheses, it returns the
\* name of the first command, and params that hold pairs of the argument
\* list of that command only.
C37_SingleCommand ==
    (Parsed /\ aiResponseText \in TrailedTexts) =>
        \A n \in Names : Named(n) =>
            \A ps \in FewPairLists, t \in Trailers :
                aiResponseText = WrittenOut(n, ps) \o t =>
                    /\ action.kind = "command"
                    /\ action.command = n
                    /\ \A k \in DOMAIN action.params :
                          /\ k \in DOMAIN LastValues(ps)
                          /\ action.params[k] = LastValues(ps)[k]

====
